---- MODULE Spec2Model ----
(***************************************************************************)
(* envclasses: overlay of dataclass fields by environment variables.       *)
(* Model of src/envclasses/__init__.py (the package module, 0.2.4).        *)
(*                                                                         *)
(* Python strings are sequences of one-character strings, so that upper(), *)
(* strip(), concatenation and the literal parser act on characters.        *)
(* Python values are records [t |-> tag, v |-> payload].                   *)
(***************************************************************************)
EXTENDS Integers, Sequences, FiniteSets, TLC

VARIABLES cls, inst, environ, last

vars == <<cls, inst, environ, last>>

----------------------------------------------------------------------------
(* str methods *)

LowerLetters == <<"a","b","c","d","e","f","g","h","i","j","k","l","m",
                  "n","o","p","q","r","s","t","u","v","w","x","y","z">>

UpperLetters == <<"A","B","C","D","E","F","G","H","I","J","K","L","M",
                  "N","O","P","Q","R","S","T","U","V","W","X","Y","Z">>

Digits == <<"0","1","2","3","4","5","6","7","8","9">>

IsIn(c, letters) == \E n \in DOMAIN letters : letters[n] = c

IndexOf(c, letters) == CHOOSE n \in DOMAIN letters : letters[n] = c

\* str.upper(), one character
UpperChar(c) == IF IsIn(c, LowerLetters) THEN UpperLetters[IndexOf(c, LowerLetters)] ELSE c

\* str.upper()
Upper(s) == [n \in DOMAIN s |-> UpperChar(s[n])]

\* str.lower()
LowerChar(c) == IF IsIn(c, UpperLetters) THEN LowerLetters[IndexOf(c, UpperLetters)] ELSE c

Lower(s) == [n \in DOMAIN s |-> LowerChar(s[n])]

\* str.strip(): leading and trailing blanks removed
Strip(s) ==
    LET keep == {n \in DOMAIN s : s[n] # " "}
    IN  IF keep = {} THEN <<>>
        ELSE LET lo == CHOOSE n \in keep : \A m \in keep : n <= m
                 hi == CHOOSE n \in keep : \A m \in keep : m <= n
             IN  SubSeq(s, lo, hi)

----------------------------------------------------------------------------
(* Python values *)

PyInt(n) == [t |-> "int", v |-> n]

PyStr(s) == [t |-> "str", v |-> s]

PyBool(b) == [t |-> "bool", v |-> b]

\* A non-negative decimal float: its integer part and its fraction digits,
\* trailing zeros dropped (2.0 is <<2, <<>>>>, 3.14 is <<3, <<1, 4>>>>).
PyFloat(ip, frac) == [t |-> "float", v |-> <<ip, frac>>]

PyNone == [t |-> "None", v |-> 0]

PyList(elems) == [t |-> "list", v |-> elems]

PyTuple(elems) == [t |-> "tuple", v |-> elems]

\* A dict is the sequence of its <<key, value>> items in insertion order.
PyDict(items) == [t |-> "dict", v |-> items]

\* A member of an enumeration: the enumeration's name and the member's payload.
PyEnum(name, payload) == [t |-> "enum", v |-> <<name, payload>>]

\* An instance of an envclass: its identity, its class and its attribute
\* values, in the order of fields(cls).
PyObj(id, c, attrs) == [t |-> "obj", v |-> <<id, c, attrs>>]

\* The outcome of a call: the value it returns, or the exception it raises.
Ok(val) == [exc |-> "ok", val |-> val]

Raise(exc) == [exc |-> exc, val |-> PyNone]

IsNumber(x) == x.t \in {"int", "bool", "float"}

\* The numeric value of an int, bool or float, as <<integer part, fraction>>.
NumVal(x) ==
    CASE x.t = "int" -> <<x.v, <<>>>>
      [] x.t = "bool" -> <<IF x.v THEN 1 ELSE 0, <<>>>>
      [] OTHER -> x.v

\* == on dict keys: numbers compare by value across int, bool and float.
PyEq(a, b) ==
    IF IsNumber(a) /\ IsNumber(b) THEN NumVal(a) = NumVal(b)
    ELSE a.t = b.t /\ a.v = b.v

\* d[k] = val on a dict's items: an equal key keeps its place and takes the
\* new value, a new key is appended.
DictSet(items, k, val) ==
    IF \E n \in DOMAIN items : PyEq(items[n][1], k)
    THEN [n \in DOMAIN items |->
            IF PyEq(items[n][1], k) THEN <<items[n][1], val>> ELSE items[n]]
    ELSE Append(items, <<k, val>>)

----------------------------------------------------------------------------
(* yaml.safe_load, on flow-style literals: plain scalars, [..] and {..} *)

IsDigits(s) == Len(s) > 0 /\ \A n \in DOMAIN s : IsIn(s[n], Digits)

DigitVal(c) == IndexOf(c, Digits) - 1

RECURSIVE ToNumber(_, _)
\* The number the digits of s denote in the given base.
ToNumber(s, base) ==
    IF s = <<>> THEN 0
    ELSE ToNumber(SubSeq(s, 1, Len(s) - 1), base) * base + DigitVal(s[Len(s)])

RECURSIVE DropTrailingZeros(_)
DropTrailingZeros(s) ==
    IF s # <<>> /\ s[Len(s)] = 0 THEN DropTrailingZeros(SubSeq(s, 1, Len(s) - 1))
    ELSE s

\* The YAML 1.1 boolean tokens of PyYAML's resolver.
YamlTrue == { <<"y","e","s">>, <<"Y","e","s">>, <<"Y","E","S">>,
              <<"t","r","u","e">>, <<"T","r","u","e">>, <<"T","R","U","E">>,
              <<"o","n">>, <<"O","n">>, <<"O","N">> }

YamlFalse == { <<"n","o">>, <<"N","o">>, <<"N","O">>,
               <<"f","a","l","s","e">>, <<"F","a","l","s","e">>,
               <<"F","A","L","S","E">>,
               <<"o","f","f">>, <<"O","f","f">>, <<"O","F","F">> }

YamlNull == { <<>>, <<"~">>, <<"n","u","l","l">>, <<"N","u","l","l">>,
              <<"N","U","L","L">> }

DotAt(s) == CHOOSE n \in DOMAIN s : s[n] = "."

\* digits "." digits: the float pattern without sign or exponent.
IsDecimalFloat(s) ==
    /\ Cardinality({n \in DOMAIN s : s[n] = "."}) = 1
    /\ IsDigits(SubSeq(s, 1, DotAt(s) - 1))
    /\ \A n \in DOMAIN s : n > DotAt(s) => IsIn(s[n], Digits)

\* The implicit resolver: the Python value of a plain scalar.
YamlScalar(s) ==
    CASE s \in YamlTrue -> PyBool(TRUE)
      [] s \in YamlFalse -> PyBool(FALSE)
      [] s \in YamlNull -> PyNone
      [] IsDigits(s) /\ (Len(s) = 1 \/ s[1] # "0") -> PyInt(ToNumber(s, 10))
      [] IsDigits(s) /\ Len(s) > 1 /\ s[1] = "0"
            /\ (\A n \in DOMAIN s : DigitVal(s[n]) < 8) -> PyInt(ToNumber(s, 8))
      [] Len(s) > 1 /\ s[1] \in {"-", "+"} /\ IsDigits(Tail(s)) /\ (Len(s) = 2 \/ s[2] # "0")
            -> PyInt((IF s[1] = "-" THEN -1 ELSE 1) * ToNumber(Tail(s), 10))
      [] IsDecimalFloat(s) ->
            PyFloat(ToNumber(SubSeq(s, 1, DotAt(s) - 1), 10),
                    DropTrailingZeros([n \in 1..(Len(s) - DotAt(s)) |->
                                          DigitVal(s[DotAt(s) + n])]))
      [] OTHER -> PyStr(s)

\* Nesting depth of position n: brackets opened and not closed before it.
Depth(s, n) ==
    Cardinality({m \in 1..(n - 1) : s[m] \in {"[", "{"}})
      - Cardinality({m \in 1..(n - 1) : s[m] \in {"]", "}"}})

Balanced(s) ==
    /\ Depth(s, Len(s) + 1) = 0
    /\ \A n \in DOMAIN s : Depth(s, n + 1) >= 0

TopCommas(s) == {n \in DOMAIN s : s[n] = "," /\ Depth(s, n) = 0}

\* The positions of ": " (a colon before a blank or the end) outside brackets.
TopColons(s) ==
    {n \in DOMAIN s : /\ s[n] = ":"
                      /\ Depth(s, n) = 0
                      /\ (n = Len(s) \/ s[n + 1] = " ")}

NthOf(S, j) == CHOOSE c \in S : Cardinality({d \in S : d < c}) = j - 1

\* s cut at the positions of S, the pieces stripped.
SplitAt(s, S) ==
    [j \in 1..(Cardinality(S) + 1) |->
        Strip(SubSeq(s, IF j = 1 THEN 1 ELSE NthOf(S, j - 1) + 1,
                        IF j = Cardinality(S) + 1 THEN Len(s) ELSE NthOf(S, j) - 1))]

\* The entries of a flow collection's inside; a trailing comma adds none.
FlowEntries(inner) ==
    LET parts == SplitAt(inner, TopCommas(inner))
    IN  IF parts[Len(parts)] = <<>> THEN SubSeq(parts, 1, Len(parts) - 1) ELSE parts

RECURSIVE BuildDict(_, _)
\* dict(pairs): a later pair with an equal key overrides the earlier value.
BuildDict(pairs, n) ==
    IF n = 0 THEN <<>>
    ELSE DictSet(BuildDict(pairs, n - 1), pairs[n][1], pairs[n][2])

RECURSIVE YamlNode(_)
\* The Python value of one node, or YAMLError.
YamlNode(s) ==
    IF s = <<>> THEN Ok(PyNone)
    ELSE IF ~Balanced(s) THEN Raise("YAMLError")
    ELSE IF s[1] = "[" THEN
        IF s[Len(s)] # "]" \/ Depth(s, Len(s)) # 1 THEN Raise("YAMLError")
        ELSE LET entries == FlowEntries(SubSeq(s, 2, Len(s) - 1))
                 nodes == [n \in DOMAIN entries |-> YamlNode(entries[n])]
             IN  IF \E n \in DOMAIN entries : entries[n] = <<>> \/ nodes[n].exc # "ok"
                 THEN Raise("YAMLError")
                 ELSE Ok(PyList([n \in DOMAIN entries |-> nodes[n].val]))
    ELSE IF s[1] = "{" THEN
        IF s[Len(s)] # "}" \/ Depth(s, Len(s)) # 1 THEN Raise("YAMLError")
        ELSE LET entries == FlowEntries(SubSeq(s, 2, Len(s) - 1))
                 colon(e) == IF TopColons(e) = {} THEN Len(e) + 1 ELSE NthOf(TopColons(e), 1)
                 key(e) == Strip(SubSeq(e, 1, colon(e) - 1))
                 nodes == [n \in DOMAIN entries |->
                              YamlNode(Strip(SubSeq(entries[n], colon(entries[n]) + 1,
                                                    Len(entries[n]))))]
             IN  IF \E n \in DOMAIN entries :
                        \/ entries[n] = <<>>
                        \/ nodes[n].exc # "ok"
                        \/ key(entries[n]) # <<>> /\ key(entries[n])[1] \in {"[", "{"}
                 THEN Raise("YAMLError")
                 ELSE Ok(PyDict(BuildDict(
                        [n \in DOMAIN entries |->
                            <<YamlScalar(key(entries[n])), nodes[n].val>>],
                        Len(entries))))
    ELSE IF TopColons(s) # {} THEN
        LET c == NthOf(TopColons(s), 1)
            node == YamlNode(Strip(SubSeq(s, c + 1, Len(s))))
        IN  IF node.exc # "ok" THEN node
            ELSE Ok(PyDict(<< <<YamlScalar(Strip(SubSeq(s, 1, c - 1))), node.val>> >>))
    ELSE Ok(YamlScalar(s))

\* yaml.safe_load(s): leading and trailing blanks do not count.
yaml_safe_load(s) == YamlNode(Strip(s))

----------------------------------------------------------------------------
(* Declared types of fields *)

TInt == [k |-> "int", args |-> <<>>, name |-> "int"]

TFloat == [k |-> "float", args |-> <<>>, name |-> "float"]

TStr == [k |-> "str", args |-> <<>>, name |-> "str"]

TBool == [k |-> "bool", args |-> <<>>, name |-> "bool"]

TList(T) == [k |-> "List", args |-> <<T>>, name |-> "List"]

TTuple(Ts) == [k |-> "Tuple", args |-> Ts, name |-> "Tuple"]

TDict(K, V) == [k |-> "Dict", args |-> <<K, V>>, name |-> "Dict"]

TOptional(T) == [k |-> "Optional", args |-> <<T>>, name |-> "Optional"]

\* An enum.Enum subclass, by name.
TEnum(e) == [k |-> "Enum", args |-> <<>>, name |-> e]

\* A class decorated with @envclass, by name.
TEnvclass(c) == [k |-> "envclass", args |-> <<>>, name |-> c]

\* The enumerations of the tests: the values of __annotations__ (one per
\* annotated member) and the members' payloads, in declaration order.
\*   SEnum(enum.Enum):    s1: str = 'hoge1'; s2: str = 'hoge2'
\*   IEnum(enum.IntEnum): i1: int = 1;       i2: int = 2
\*   UEnum(enum.Enum):    s = 's'; t = 't'   (no annotations)
EnumAnnotations(e) ==
    CASE e = "SEnum" -> <<TStr, TStr>>
      [] e = "IEnum" -> <<TInt, TInt>>
      [] e = "UEnum" -> <<>>

EnumMembers(e) ==
    CASE e = "SEnum" -> <<PyStr(<<"h","o","g","e","1">>), PyStr(<<"h","o","g","e","2">>)>>
      [] e = "IEnum" -> <<PyInt(1), PyInt(2)>>
      [] e = "UEnum" -> <<PyStr(<<"s">>), PyStr(<<"t">>)>>

----------------------------------------------------------------------------
(* Calling a type: typ(v) *)

RECURSIVE IntToStr(_)
\* str(n) of a non-negative int
IntToStr(n) ==
    IF n < 10 THEN <<Digits[n + 1]>>
    ELSE IntToStr(n \div 10) \o <<Digits[(n % 10) + 1]>>

SignedToStr(n) == IF n < 0 THEN <<"-">> \o IntToStr(-n) ELSE IntToStr(n)

\* repr of a float: at least one fraction digit
FloatToStr(x) ==
    SignedToStr(x[1]) \o <<".">>
      \o (IF x[2] = <<>> THEN <<"0">> ELSE [n \in DOMAIN x[2] |-> Digits[x[2][n] + 1]])

RECURSIVE JoinRepr(_, _)
\* The pieces joined by ", "
JoinRepr(pieces, n) ==
    IF n = 0 THEN <<>>
    ELSE IF n = 1 THEN pieces[1]
    ELSE JoinRepr(pieces, n - 1) \o <<",", " ">> \o pieces[n]

RECURSIVE PyRepr(_)
\* repr(v)
PyRepr(v) ==
    CASE v.t = "int" -> SignedToStr(v.v)
      [] v.t = "float" -> FloatToStr(v.v)
      [] v.t = "bool" -> IF v.v THEN <<"T","r","u","e">> ELSE <<"F","a","l","s","e">>
      [] v.t = "None" -> <<"N","o","n","e">>
      [] v.t = "str" -> <<"'">> \o v.v \o <<"'">>
      [] v.t = "list" ->
            <<"[">> \o JoinRepr([n \in DOMAIN v.v |-> PyRepr(v.v[n])], Len(v.v)) \o <<"]">>
      [] v.t = "dict" ->
            <<"{">> \o JoinRepr([n \in DOMAIN v.v |->
                                    PyRepr(v.v[n][1]) \o <<":", " ">> \o PyRepr(v.v[n][2])],
                                Len(v.v)) \o <<"}">>

\* str(v)
PyStrOf(v) == IF v.t = "str" THEN v.v ELSE PyRepr(v)

\* bool(v): truthiness
PyTruth(v) ==
    CASE v.t = "bool" -> v.v
      [] v.t = "int" -> v.v # 0
      [] v.t = "float" -> v.v # <<0, <<>>>>
      [] v.t = "None" -> FALSE
      [] v.t \in {"str", "list", "dict", "tuple"} -> v.v # <<>>

\* The text of a number inside a str, surrounding blanks and a sign apart.
Unsigned(s) == IF s # <<>> /\ s[1] \in {"-", "+"} THEN Tail(s) ELSE s

Sign(s) == IF s # <<>> /\ s[1] = "-" THEN -1 ELSE 1

\* int(v)
PyIntOf(v) ==
    CASE v.t = "int" -> Ok(v)
      [] v.t = "bool" -> Ok(PyInt(IF v.v THEN 1 ELSE 0))
      [] v.t = "float" -> Ok(PyInt(v.v[1]))
      [] v.t = "str" ->
            IF IsDigits(Unsigned(Strip(v.v)))
            THEN Ok(PyInt(Sign(Strip(v.v)) * ToNumber(Unsigned(Strip(v.v)), 10)))
            ELSE Raise("ValueError")
      [] OTHER -> Raise("TypeError")

\* float(v)
PyFloatOf(v) ==
    CASE v.t = "float" -> Ok(v)
      [] v.t = "int" -> Ok(PyFloat(v.v, <<>>))
      [] v.t = "bool" -> Ok(PyFloat(IF v.v THEN 1 ELSE 0, <<>>))
      [] v.t = "str" ->
            LET s == Unsigned(Strip(v.v))
            IN  IF IsDigits(s) THEN Ok(PyFloat(Sign(Strip(v.v)) * ToNumber(s, 10), <<>>))
                ELSE IF IsDecimalFloat(s) /\ YamlScalar(s).t = "float"
                THEN Ok(PyFloat(Sign(Strip(v.v)) * YamlScalar(s).v[1], YamlScalar(s).v[2]))
                ELSE Raise("ValueError")
      [] OTHER -> Raise("TypeError")

\* E(v): the member of enumeration e whose payload equals v
EnumLookup(e, v) ==
    LET members == EnumMembers(e)
    IN  IF \E n \in DOMAIN members : PyEq(members[n], v)
        THEN Ok(PyEnum(e, members[CHOOSE n \in DOMAIN members : PyEq(members[n], v)].v))
        ELSE Raise("ValueError")

\* typ(v). The typing aliases (List[..], Tuple[..], Dict[..], Optional[..])
\* cannot be instantiated.
Construct(typ, v) ==
    CASE typ.k = "int" -> PyIntOf(v)
      [] typ.k = "float" -> PyFloatOf(v)
      [] typ.k = "str" -> Ok(PyStr(PyStrOf(v)))
      [] typ.k = "bool" -> Ok(PyBool(PyTruth(v)))
      [] typ.k = "Enum" -> EnumLookup(typ.name, v)
      [] typ.k \in {"List", "Tuple", "Dict", "Optional"} -> Raise("TypeError")

\* Mutant of _to_value: the isinstance test dropped, every value converted.
to_value_always(v, typ) == Construct(typ, v)

_to_value(v, typ) ==
    IF v.t \in {"list", "dict"} THEN Ok(v) ELSE Construct(typ, v)

\* iter(v): the elements a for loop or zip draws from v
PyIter(v) ==
    CASE v.t \in {"list", "tuple"} -> Ok(v.v)
      [] v.t = "dict" -> Ok([n \in DOMAIN v.v |-> v.v[n][1]])
      [] v.t = "str" -> Ok([n \in DOMAIN v.v |-> PyStr(<<v.v[n]>>)])
      [] OTHER -> Raise("TypeError")

\* len(v)
PyLen(v) == IF v.t \in {"list", "tuple", "dict", "str"} THEN Ok(Len(v.v)) ELSE Raise("TypeError")

\* The first exception among the outcomes, or "ok"
FirstExc(outcomes) ==
    IF \A n \in DOMAIN outcomes : outcomes[n].exc = "ok" THEN "ok"
    ELSE outcomes[CHOOSE n \in DOMAIN outcomes :
                    /\ outcomes[n].exc # "ok"
                    /\ \A m \in 1..(n - 1) : outcomes[m].exc = "ok"].exc

----------------------------------------------------------------------------
(* The classes under load, after the classes of test_envclasses.py *)

Field(name, type) == [name |-> name, type |-> type]

\* fields(cls): the declared fields, in declaration order
Fields(c) ==
    CASE c = "HogeI" -> <<Field(<<"i">>, TInt)>>
      [] c = "HogeP" -> <<Field(<<"s">>, TStr), Field(<<"b">>, TBool)>>
      [] c = "HogeS" -> <<Field(<<"d","a","t","e">>, TStr), Field(<<"t","e","x","t">>, TStr)>>
      [] c = "HogeN" -> <<Field(<<"i">>, TInt), Field(<<"f","u","g","a">>, TEnvclass("Fuga")),
                          Field(<<"s">>, TStr)>>
      [] c = "Fuga" -> <<Field(<<"i">>, TInt), Field(<<"p","i","y","o">>, TEnvclass("Piyo"))>>
      [] c = "Piyo" -> <<Field(<<"i">>, TInt)>>
      [] c = "HogeL" -> <<Field(<<"l","s","t","_","i","n","t">>, TList(TInt)),
                          Field(<<"l","s","t","_","s","t","r">>, TList(TStr))>>
      [] c = "HogeT" -> <<Field(<<"t","u","p","l","e","_","o","n","e">>, TTuple(<<TStr>>)),
                          Field(<<"t","u","p","l","e","_","t","w","o">>,
                                TTuple(<<TInt, TFloat>>))>>
      [] c = "HogeD" -> <<Field(<<"d","c","t","_","i","n","t">>, TDict(TInt, TInt)),
                          Field(<<"d","c","t","_","s","t","r","_","f","l","o","a","t">>,
                                TDict(TStr, TFloat))>>
      [] c = "HogeE" -> <<Field(<<"s">>, TEnum("SEnum")), Field(<<"i">>, TEnum("IEnum")),
                          Field(<<"u">>, TEnum("UEnum"))>>
      [] c = "HogeOS" -> <<Field(<<"i">>, TInt), Field(<<"a">>, TOptional(TStr))>>
      [] c = "HogeOL" -> <<Field(<<"l","s","t">>, TOptional(TList(TInt)))>>
      [] c = "HogeON" -> <<Field(<<"f","u","g","a">>, TOptional(TEnvclass("Piyo")))>>
      [] c = "LegacyHoge" -> <<Field(<<"i">>, TInt),
                               Field(<<"t","p","l">>, TTuple(<<TInt, TFloat>>)),
                               Field(<<"b">>, TBool)>>

FieldIndex(c, name) == CHOOSE n \in DOMAIN Fields(c) : Fields(c)[n].name = name

ClassOf(obj) == obj.v[2]

\* getattr(obj, name)
GetAttr(obj, name) == obj.v[3][FieldIndex(ClassOf(obj), name)]

\* setattr(obj, name, val): the object keeps its identity
SetAttr(obj, name, val) ==
    [t |-> "obj",
     v |-> <<obj.v[1], obj.v[2], [obj.v[3] EXCEPT ![FieldIndex(ClassOf(obj), name)] = val]>>]

----------------------------------------------------------------------------
(* Type classifiers *)

\* typing_inspect.get_origin(typ)
get_origin(typ) ==
    CASE typ.k = "List" -> "list"
      [] typ.k = "Tuple" -> "tuple"
      [] typ.k = "Dict" -> "dict"
      [] typ.k = "Optional" -> "Union"
      [] OTHER -> "None"

\* Whether issubclass accepts x as its first argument.
IsClass(typ) == typ.k \in {"int", "float", "str", "bool", "Enum", "envclass"}

is_envclass(typ) == typ.k = "envclass"

\* issubclass(get_origin(typ), list); on TypeError isinstance(typ, list)
is_list(typ) ==
    IF get_origin(typ) \in {"list", "tuple", "dict"} THEN get_origin(typ) = "list" ELSE FALSE

is_tuple(typ) ==
    IF get_origin(typ) \in {"list", "tuple", "dict"} THEN get_origin(typ) = "tuple" ELSE FALSE

is_dict(typ) ==
    IF get_origin(typ) \in {"list", "tuple", "dict"} THEN get_origin(typ) = "dict" ELSE FALSE

\* issubclass(typ, enum.Enum); on TypeError isinstance(typ, enum.Enum)
is_enum(typ) == IF IsClass(typ) THEN typ.k = "Enum" ELSE FALSE

\* issubclass(typ, str): raises TypeError when typ is not a class
is_str(typ) == IF IsClass(typ) THEN Ok(typ.k = "str") ELSE Raise("TypeError")

----------------------------------------------------------------------------
(* Loaders. Each returns the exception it raises ("ok": none), the message
   of the exception, the object as the call leaves it and the environment
   names it looked up. *)

ENVCLASS_PREFIX == <<"e","n","v">>

\* The prefix argument None: no character string is this value.
None == <<"None">>

Result(exc, msg, obj, log) == [exc |-> exc, msg |-> msg, obj |-> obj, log |-> log]

\* One lookup of os.environ[name] for field f of obj; set: the lookup was
\* followed by setattr(obj, f.name, ...).
Lookup(obj, f, name) == [name |-> name, field |-> f.name, owner |-> obj.v[1], set |-> FALSE]

\* The lookup of log was followed by setattr.
Written(log) == [n \in DOMAIN log |-> [log[n] EXCEPT !.set = TRUE]]

\* name = f'{prefix.upper()}{f.name.upper()}'
env_name(prefix, f) == Upper(prefix) \o Upper(f.name)

\* Mutant of prefix_of: prefix = _prefix or ENVCLASS_PREFIX, the separator
\* always appended.
prefix_of_or_default(_prefix) ==
    (IF _prefix # None /\ _prefix # <<>> THEN _prefix ELSE ENVCLASS_PREFIX) \o <<"_">>

\* prefix = _prefix if _prefix is not None else ENVCLASS_PREFIX
\* prefix += '_' if prefix else ''
prefix_of(_prefix) ==
    LET prefix == IF _prefix # None THEN _prefix ELSE ENVCLASS_PREFIX
    IN  prefix \o (IF prefix # <<>> THEN <<"_">> ELSE <<>>)

_load_list(obj, f, prefix) ==
    LET element_type == f.type.args[1]
        name == env_name(prefix, f)
        log == <<Lookup(obj, f, name)>>
        assign(lst) ==
            IF FirstExc(lst) # "ok" THEN Result(FirstExc(lst), <<>>, obj, log)
            ELSE Result("ok", <<>>,
                        SetAttr(obj, f.name, PyList([n \in DOMAIN lst |-> lst[n].val])), Written(log))
        convert(yml) ==
            LET it == PyIter(yml.val)
            IN  IF yml.exc # "ok" THEN Result(yml.exc, <<>>, obj, log)
                ELSE IF it.exc # "ok" THEN Result(it.exc, <<>>, obj, log)
                ELSE assign([n \in DOMAIN it.val |-> Construct(element_type, it.val[n])])
    IN  IF name \notin DOMAIN environ THEN Result("ok", <<>>, obj, log)
        ELSE convert(yaml_safe_load(Strip(environ[name])))

\* Mutant of _load_tuple: the length test dropped, zip stops at the shorter.
load_tuple_unchecked(obj, f, prefix) ==
    LET name == env_name(prefix, f)
        element_types == f.type.args
        log == <<Lookup(obj, f, name)>>
        assign(tpl) ==
            IF FirstExc(tpl) # "ok" THEN Result(FirstExc(tpl), <<>>, obj, log)
            ELSE Result("ok", <<>>,
                        SetAttr(obj, f.name, PyTuple([n \in DOMAIN tpl |-> tpl[n].val])), Written(log))
        convert(lst) ==
            LET elems == PyIter(lst.val)
            IN  IF lst.exc # "ok" THEN Result(lst.exc, <<>>, obj, log)
                ELSE IF elems.exc # "ok" THEN Result(elems.exc, <<>>, obj, log)
                ELSE assign([n \in {m \in DOMAIN elems.val : m <= Len(element_types)} |->
                               Construct(element_types[n], elems.val[n])])
    IN  IF name \notin DOMAIN environ THEN Result("ok", <<>>, obj, log)
        ELSE convert(yaml_safe_load(Strip(environ[name])))

_load_tuple(obj, f, prefix) ==
    LET name == env_name(prefix, f)
        element_types == f.type.args
        log == <<Lookup(obj, f, name)>>
        assign(tpl) ==
            IF FirstExc(tpl) # "ok" THEN Result(FirstExc(tpl), <<>>, obj, log)
            ELSE Result("ok", <<>>,
                        SetAttr(obj, f.name, PyTuple([n \in DOMAIN tpl |-> tpl[n].val])), Written(log))
        convert(lst) ==
            LET length == PyLen(lst.val)
                elems == PyIter(lst.val).val
            IN  IF lst.exc # "ok" THEN Result(lst.exc, <<>>, obj, log)
                ELSE IF length.exc # "ok" THEN Result(length.exc, <<>>, obj, log)
                ELSE IF length.val # Len(element_types)
                THEN Result("InvalidNumberOfElement",
                            <<Len(element_types), length.val>>, obj, log)
                ELSE assign([n \in DOMAIN elems |-> Construct(element_types[n], elems[n])])
    IN  IF name \notin DOMAIN environ THEN Result("ok", <<>>, obj, log)
        ELSE convert(yaml_safe_load(Strip(environ[name])))

_load_dict(obj, f, prefix) ==
    LET name == env_name(prefix, f)
        key_type == f.type.args[1]
        value_type == f.type.args[2]
        log == <<Lookup(obj, f, name)>>
        \* conv: key and value of each item in turn, k1, v1, k2, v2, ...
        assign(conv) ==
            IF FirstExc(conv) # "ok" THEN Result(FirstExc(conv), <<>>, obj, log)
            ELSE Result("ok", <<>>,
                        SetAttr(obj, f.name,
                                PyDict(BuildDict([n \in 1..(Len(conv) \div 2) |->
                                                    <<conv[2 * n - 1].val, conv[2 * n].val>>],
                                                 Len(conv) \div 2))),
                        Written(log))
        convert(yml) ==
            LET items == yml.val.v
            IN  IF yml.exc # "ok" THEN Result(yml.exc, <<>>, obj, log)
                ELSE IF yml.val.t # "dict" THEN Result("AttributeError", <<>>, obj, log)
                ELSE assign([n \in 1..(2 * Len(items)) |->
                               IF n % 2 = 1 THEN _to_value(items[(n + 1) \div 2][1], key_type)
                               ELSE _to_value(items[n \div 2][2], value_type)])
    IN  IF name \notin DOMAIN environ THEN Result("ok", <<>>, obj, log)
        ELSE convert(yaml_safe_load(Strip(environ[name])))

\* log, then the lookups of r
LogBefore(log, r) == [r EXCEPT !.log = log \o r.log]

RECURSIVE load_enum_from(_, _, _, _)
\* The loop of _load_enum from the n-th annotation on.
load_enum_from(obj, f, name, n) ==
    LET enum_annotations == EnumAnnotations(f.type.name)
        log == <<Lookup(obj, f, name)>>
        member(nested) == IF nested.exc = "ok" THEN Construct(f.type, nested.val) ELSE nested
        assign(m) ==
            IF m.exc = "ok" THEN Result("ok", <<>>, SetAttr(obj, f.name, m.val), Written(log))
            ELSE IF m.exc \in {"KeyError", "ValueError"}
            THEN LogBefore(log, load_enum_from(obj, f, name, n + 1))
            ELSE Result(m.exc, <<>>, obj, log)
    IN  IF n > Len(enum_annotations) THEN Result("ok", <<>>, obj, <<>>)
        ELSE assign(member(IF name \in DOMAIN environ
                           THEN Construct(enum_annotations[n], PyStr(environ[name]))
                           ELSE Raise("KeyError")))

_load_enum(obj, f, prefix) == load_enum_from(obj, f, env_name(prefix, f), 1)

\* Mutant of _load_str: the raw string passed through yaml.safe_load, as
\* _load_other does.
load_str_parsed(obj, f, prefix) ==
    LET name == env_name(prefix, f)
        log == <<Lookup(obj, f, name)>>
        assign(value) ==
            IF value.exc = "KeyError" THEN Result("ok", <<>>, obj, log)
            ELSE IF value.exc # "ok" THEN Result(value.exc, <<>>, obj, log)
            ELSE Result("ok", <<>>, SetAttr(obj, f.name, value.val), Written(log))
        convert(yml) == IF yml.exc = "ok" THEN _to_value(yml.val, f.type) ELSE yml
    IN  IF name \notin DOMAIN environ THEN Result("ok", <<>>, obj, log)
        ELSE assign(convert(yaml_safe_load(environ[name])))

_load_str(obj, f, prefix) ==
    LET name == env_name(prefix, f)
        log == <<Lookup(obj, f, name)>>
        assign(value) ==
            IF value.exc = "KeyError" THEN Result("ok", <<>>, obj, log)
            ELSE IF value.exc # "ok" THEN Result(value.exc, <<>>, obj, log)
            ELSE Result("ok", <<>>, SetAttr(obj, f.name, value.val), Written(log))
    IN  IF name \notin DOMAIN environ THEN Result("ok", <<>>, obj, log)
        ELSE assign(_to_value(PyStr(environ[name]), f.type))

_load_other(obj, f, prefix) ==
    LET name == env_name(prefix, f)
        log == <<Lookup(obj, f, name)>>
        assign(value) ==
            IF value.exc = "KeyError" THEN Result("ok", <<>>, obj, log)
            ELSE IF value.exc # "ok" THEN Result(value.exc, <<>>, obj, log)
            ELSE Result("ok", <<>>, SetAttr(obj, f.name, value.val), Written(log))
        convert(yml) == IF yml.exc = "ok" THEN _to_value(yml.val, f.type) ELSE yml
    IN  IF name \notin DOMAIN environ THEN Result("ok", <<>>, obj, log)
        ELSE assign(convert(yaml_safe_load(environ[name])))

RECURSIVE load_fields(_, _, _)

\* Mutant of _load_dataclass: except Exception, every failure of the nested
\* load passed over.
load_dataclass_swallowing(obj, f, prefix) ==
    LET inner_prefix == prefix \o f.name
        o == GetAttr(obj, f.name)
        returned(r) == Result("ok", <<>>, SetAttr(obj, f.name, r.obj), r.log)
    IN  IF o.t # "obj" THEN Result("AttributeError", <<>>, obj, <<>>)
        ELSE returned(load_fields(o, inner_prefix, 1))

\* Mutant of _load_dataclass: a copy of the nested object is loaded and
\* assigned to the field.
load_dataclass_copying(obj, f, prefix) ==
    LET inner_prefix == prefix \o f.name
        o == GetAttr(obj, f.name)
        returned(r) ==
            Result(IF r.exc = "KeyError" THEN "ok" ELSE r.exc,
                   IF r.exc = "KeyError" THEN <<>> ELSE r.msg,
                   SetAttr(obj, f.name, PyObj((r.obj.v[1] % 10) + 10, r.obj.v[2], r.obj.v[3])),
                   r.log)
    IN  IF o.t # "obj" THEN Result("AttributeError", <<>>, obj, <<>>)
        ELSE returned(load_fields(o, inner_prefix, 1))

\* Mutant of _load_dataclass: inner_prefix = f'{prefix}_{f.name}'.
load_dataclass_separated(obj, f, prefix) ==
    LET inner_prefix == prefix \o <<"_">> \o f.name
        o == GetAttr(obj, f.name)
        returned(r) ==
            Result(IF r.exc = "KeyError" THEN "ok" ELSE r.exc,
                   IF r.exc = "KeyError" THEN <<>> ELSE r.msg,
                   SetAttr(obj, f.name, r.obj), r.log)
    IN  IF o.t # "obj" THEN Result("AttributeError", <<>>, obj, <<>>)
        ELSE returned(load_fields(o, inner_prefix, 1))

\* o.__envclasses_load_env__(inner_prefix), KeyError passed over; the nested
\* object is changed in place, whatever the call raises.
_load_dataclass(obj, f, prefix) ==
    LET inner_prefix == prefix \o f.name
        o == GetAttr(obj, f.name)
        returned(r) ==
            Result(IF r.exc = "KeyError" THEN "ok" ELSE r.exc,
                   IF r.exc = "KeyError" THEN <<>> ELSE r.msg,
                   SetAttr(obj, f.name, r.obj), r.log)
    IN  IF o.t # "obj" THEN Result("AttributeError", <<>>, obj, <<>>)
        ELSE returned(load_fields(o, inner_prefix, 1))

\* The body of the loop of envclass.wrap.load_env for one field.
dispatch(self, f, _prefix) ==
    LET prefix == prefix_of(_prefix)
    IN  IF is_envclass(f.type) THEN _load_dataclass(self, f, prefix)
        ELSE IF is_list(f.type) THEN _load_list(self, f, prefix)
        ELSE IF is_tuple(f.type) THEN _load_tuple(self, f, prefix)
        ELSE IF is_dict(f.type) THEN _load_dict(self, f, prefix)
        ELSE IF is_enum(f.type) THEN _load_enum(self, f, prefix)
        ELSE IF is_str(f.type).exc # "ok" THEN Result(is_str(f.type).exc, <<>>, self, <<>>)
        ELSE IF is_str(f.type).val THEN _load_str(self, f, prefix)
        ELSE _load_other(self, f, prefix)

\* envclass.wrap.load_env(self, _prefix), from the n-th field on: the first
\* exception ends the loop, with the earlier fields already written.
load_fields(self, _prefix, n) ==
    LET next(r) ==
            IF r.exc # "ok" THEN r
            ELSE LogBefore(r.log, load_fields(r.obj, _prefix, n + 1))
    IN  IF n > Len(Fields(ClassOf(self))) THEN Result("ok", <<>>, self, <<>>)
        ELSE next(dispatch(self, Fields(ClassOf(self))[n], _prefix))

\* load_env(inst, prefix): inst.__envclasses_load_env__(prefix)
load_env(obj, prefix) == load_fields(obj, prefix, 1)

----------------------------------------------------------------------------
(* The program: an instance h of one of the classes, os.environ, and calls
   of load_env(h, prefix) *)

TopClasses == {"HogeI", "HogeP", "HogeS", "HogeN", "HogeL", "HogeT", "HogeD", "HogeE",
               "HogeOS", "HogeOL", "HogeON"}

\* h as the tests construct it
NewInstance(c) ==
    CASE c = "HogeI" -> PyObj(1, c, <<PyInt(10)>>)
      [] c = "HogeP" -> PyObj(1, c, <<PyStr(<<"h","o","g","e">>), PyBool(TRUE)>>)
      [] c = "HogeS" -> PyObj(1, c, <<PyStr(<<"2","0","2","1">>), PyStr(<<"a","\n","b">>)>>)
      [] c = "HogeN" ->
            PyObj(1, c, <<PyInt(10),
                          PyObj(2, "Fuga", <<PyInt(100), PyObj(3, "Piyo", <<PyInt(1000)>>)>>),
                          PyStr(<<"h","o","g","e">>)>>)
      [] c = "HogeL" -> PyObj(1, c, <<PyList(<<>>), PyList(<<>>)>>)
      [] c = "HogeT" -> PyObj(1, c, <<PyStr(<<"h","o","g","e">>),
                                      PyTuple(<<PyInt(0), PyFloat(0, <<>>)>>)>>)
      [] c = "HogeD" -> PyObj(1, c, <<PyDict(<<>>), PyDict(<<>>)>>)
      [] c = "HogeE" -> PyObj(1, c, <<PyEnum("SEnum", <<"h","o","g","e","1">>), PyEnum("IEnum", 1),
                                      PyEnum("UEnum", <<"t">>)>>)
      [] c = "HogeOS" -> PyObj(1, c, <<PyInt(10), PyNone>>)
      [] c = "HogeOL" -> PyObj(1, c, <<PyNone>>)
      [] c = "HogeON" -> PyObj(1, c, <<PyNone>>)
      [] c = "LegacyHoge" -> PyObj(1, c, <<PyInt(10), PyTuple(<<PyInt(0), PyFloat(0, <<>>)>>),
                                           PyBool(FALSE)>>)

\* The prefix arguments the calls pass
Prefixes(c) ==
    CASE c = "HogeI" -> {None, <<>>, <<"A">>, <<"A","B","_">>}
      [] c = "HogeN" -> {None, <<>>, <<"a">>}
      [] c \in {"HogeS", "HogeOS", "HogeOL", "HogeON"} -> {<<>>}
      [] c = "LegacyHoge" -> {None, <<>>, <<"a">>}
      [] OTHER -> {None}

\* The names the environment may define
EnvNames(c) ==
    CASE c = "HogeI" -> {<<"E","N","V","_","I">>,
                             <<"I">>,
                             <<"A","_","I">>,
                             <<"A","B","_","I">>,
                             <<"A","B","_","_","I">>}
      [] c = "HogeP" -> {<<"E","N","V","_","S">>,
                             <<"E","N","V","_","B">>}
      [] c = "HogeS" -> {<<"D","A","T","E">>,
                             <<"T","E","X","T">>}
      [] c = "HogeN" -> {<<"E","N","V","_","I">>,
                             <<"E","N","V","_","F","U","G","A">>,
                             <<"E","N","V","_","F","U","G","A","_","I">>,
                             <<"E","N","V","_","F","U","G","A","_","P","I","Y","O","_","I">>,
                             <<"E","N","V","_","S">>,
                             <<"I">>,
                             <<"F","U","G","A","_","I">>,
                             <<"F","U","G","A","_","P","I","Y","O","_","I">>,
                             <<"S">>,
                             <<"A","_","I">>,
                             <<"A","_","F","U","G","A","_","I">>,
                             <<"A","_","F","U","G","A","_","P","I","Y","O","_","I">>,
                             <<"A","_","S">>}
      [] c = "HogeL" -> {<<"E","N","V","_","L","S","T","_","I","N","T">>,
                             <<"E","N","V","_","L","S","T","_","S","T","R">>}
      [] c = "HogeT" -> {<<"E","N","V","_","T","U","P","L","E","_","O","N","E">>,
                             <<"E","N","V","_","T","U","P","L","E","_","T","W","O">>}
      [] c = "HogeD" -> {<<"E","N","V","_","D","C","T","_","I","N","T">>,
                             <<"E","N","V","_","D","C","T","_","S","T","R","_","F","L","O","A","T">>}
      [] c = "HogeE" -> {<<"E","N","V","_","S">>,
                             <<"E","N","V","_","I">>,
                             <<"E","N","V","_","U">>}
      [] c = "HogeOS" -> {<<"I">>,
                              <<"A">>}
      [] c = "HogeOL" -> {<<"L","S","T">>}
      [] c = "HogeON" -> {<<"F","U","G","A">>,
                              <<"F","U","G","A","_","I">>}
      [] c = "LegacyHoge" -> {<<"E","N","V","_","I">>,
                              <<"E","N","V","_","T","P","L">>,
                              <<"E","N","V","_","B">>,
                              <<"A","_","T","P","L">>}

\* The values the environment may give them
RawValues(c) ==
    CASE c = "HogeI" -> {<<"3","0">>,
                             <<"4","0">>}
      [] c = "HogeP" -> {<<"t","r","u","e">>,
                             <<"t","R","u","E">>,
                             <<"1">>,
                             <<"y","e","s">>,
                             <<"F","a","l","s","e">>,
                             <<"n","O">>,
                             <<"0">>,
                             <<"h","o","g","e">>,
                             <<"2",".","0">>}
      [] c = "HogeS" -> {<<"2","0","2","2","-","0","1","-","0","1","T","2","2",":","0","0",":","0","0","Z">>,
                             <<"c","\n","d">>,
                             <<"1","0">>,
                             <<"t","r","u","e">>,
                             <<"[","1",","," ","2","]">>,
                             <<" ","x"," ">>,
                             <<"{","a",":"," ","1","}">>}
      [] c = "HogeN" -> {<<"2","0">>,
                             <<"x">>}
      [] c = "HogeL" -> {<<"[","1",","," ","2"," ","]">>,
                             <<" ","[","]"," ">>,
                             <<"{","a",":"," ","1","}">>,
                             <<"h","o","g","e">>,
                             <<"[","a","]">>,
                             <<"5">>,
                             <<"[","1">>,
                             <<"[","[","1","]","]">>,
                             <<>>}
      [] c = "HogeT" -> {<<"[","1",","," ","2","]">>,
                             <<"[","1","]">>,
                             <<"[","f","u","g","a","]">>,
                             <<"a","b">>,
                             <<"{","1",":"," ","2",","," ","3",":"," ","4","}">>,
                             <<"7">>,
                             <<"[","x",","," ","y","]">>}
      [] c = "HogeD" -> {<<"{","1",":"," ","2","}">>,
                             <<"{","h","o","g","e",":"," ","2","}">>,
                             <<"{","h","o","g","e",":"," ","[","1",","," ","2","]","}">>,
                             <<"{","1",":"," ","2",","," ","1",".","5",":"," ","3","}">>,
                             <<"[","1",","," ","2","]">>,
                             <<"{","}">>,
                             <<"h","o","g","e">>,
                             <<"{","a",":"," ","{","1",":"," ","2","}","}">>}
      [] c = "HogeE" -> {<<"h","o","g","e","2">>,
                             <<"2">>,
                             <<"s">>,
                             <<"3">>}
      [] c = "HogeOS" -> {<<"A">>,
                              <<"1","0">>}
      [] c = "HogeOL" -> {<<"[","1","]">>}
      [] c = "HogeON" -> {<<"2","0","0">>}
      [] c = "LegacyHoge" -> {<<"3","0">>,
                              <<"(","1",","," ","2",".","0",")">>,
                              <<"(","1",")">>,
                              <<" ","(","3",","," ","4",")"," ">>,
                              <<"[","1",","," ","2","]">>,
                              <<"y","e","s">>,
                              <<"h","o","g","e">>}

\* At most this many variables are set in the environment.
MaxEnvVars == 2

\* No call of load_env since the environment last changed.
NoCall == [called |-> FALSE, prefix |-> None, before |-> PyNone,
           exc |-> "ok", msg |-> <<>>, log |-> <<>>]

Init ==
    /\ cls \in TopClasses
    /\ inst = NewInstance(cls)
    /\ environ = <<>>
    /\ last = NoCall

\* os.environ[name] = value
SetEnv(name, value) ==
    /\ name \in DOMAIN environ \/ Cardinality(DOMAIN environ) < MaxEnvVars
    /\ environ' = [x \in DOMAIN environ \cup {name} |->
                      IF x = name THEN value ELSE environ[x]]
    /\ last' = NoCall
    /\ UNCHANGED <<cls, inst>>

\* load_env(h, prefix): h is changed in place, also when the call raises
LoadEnv(prefix) ==
    LET returned(r) ==
            /\ inst' = r.obj
            /\ last' = [called |-> TRUE, prefix |-> prefix, before |-> inst,
                        exc |-> r.exc, msg |-> r.msg, log |-> r.log]
    IN  /\ returned(load_env(inst, prefix))
        /\ UNCHANGED <<cls, environ>>

Next ==
    \/ \E name \in EnvNames(cls), value \in RawValues(cls) : SetEnv(name, value)
    \/ \E prefix \in Prefixes(cls) : LoadEnv(prefix)

Spec == Init /\ [][Next]_vars

----------------------------------------------------------------------------
(* The single-file module envclasses.py (0.1.0) *)

TUPLE_BRACKET == <<"(", ")">>

LIST_QUOTES == {"'", "\""}

RECURSIVE Split(_, _)
\* s.split(sep)
Split(s, sep) ==
    IF \A n \in DOMAIN s : s[n] # sep THEN <<s>>
    ELSE LET at == CHOOSE n \in DOMAIN s : s[n] = sep /\ \A m \in 1..(n - 1) : s[m] # sep
         IN  <<SubSeq(s, 1, at - 1)>> \o Split(SubSeq(s, at + 1, Len(s)), sep)

str_to_bool(s) ==
    IF Lower(s) \in {<<"t","r","u","e">>, <<"1">>, <<"y","e","s">>} THEN Ok(PyBool(TRUE))
    ELSE IF Lower(s) \in {<<"f","a","l","s","e">>, <<"0">>, <<"n","o">>} THEN Ok(PyBool(FALSE))
    ELSE Raise("LoadEnvError")

\* _to_value(e, typ) of envclasses.py: e is a str
legacy_to_value(e, typ) ==
    IF typ.k = "str"
    THEN IF e = <<>> THEN Raise("IndexError")
         ELSE IF e[1] \notin LIST_QUOTES \/ e[Len(e)] \notin LIST_QUOTES
         THEN Raise("EnvclassError")
         ELSE Ok(PyStr(SubSeq(e, 2, Len(e) - 1)))
    ELSE IF typ.k = "bool" THEN str_to_bool(e)
    ELSE Construct(typ, PyStr(e))

\* name = f'{prefix.upper()}_{f.name.upper()}'
legacy_env_name(prefix, f) == Upper(prefix) \o <<"_">> \o Upper(f.name)

\* prefix = _prefix or ENVCLASS_PREFIX
legacy_prefix_of(_prefix) ==
    IF _prefix # None /\ _prefix # <<>> THEN _prefix ELSE <<"e","n","v">>

\* _load_tuple of envclasses.py. The KeyError of a missing variable is
\* passed over and s is read unbound: UnboundLocalError.
legacy_load_tuple(obj, f, prefix) ==
    LET name == legacy_env_name(prefix, f)
        element_types == f.type.args
        log == <<Lookup(obj, f, name)>>
        assign(tpl) ==
            IF FirstExc(tpl) # "ok" THEN Result(FirstExc(tpl), <<>>, obj, log)
            ELSE Result("ok", <<>>,
                        SetAttr(obj, f.name, PyTuple([n \in DOMAIN tpl |-> tpl[n].val])),
                        Written(log))
        convert(lst) ==
            IF Len(lst) # Len(element_types)
            THEN Result("InvalidNumberOfElement", <<Len(element_types), Len(lst)>>, obj, log)
            ELSE assign([n \in DOMAIN lst |-> legacy_to_value(lst[n], element_types[n])])
        parse(s) ==
            IF s = <<>> THEN Result("IndexError", <<>>, obj, log)
            ELSE IF TUPLE_BRACKET[1] # s[1] \/ TUPLE_BRACKET[2] # s[Len(s)]
            THEN Result("EnvclassError", <<>>, obj, log)
            ELSE convert([n \in DOMAIN Split(SubSeq(s, 2, Len(s) - 1), ",") |->
                            Strip(Split(SubSeq(s, 2, Len(s) - 1), ",")[n])])
    IN  IF name \notin DOMAIN environ THEN Result("UnboundLocalError", <<>>, obj, log)
        ELSE parse(Strip(environ[name]))

\* _load_primitive of envclasses.py
_load_primitive(obj, f, prefix) ==
    LET name == legacy_env_name(prefix, f)
        log == <<Lookup(obj, f, name)>>
        assign(value) ==
            IF value.exc = "KeyError" THEN Result("ok", <<>>, obj, log)
            ELSE IF value.exc # "ok" THEN Result(value.exc, <<>>, obj, log)
            ELSE Result("ok", <<>>, SetAttr(obj, f.name, value.val), Written(log))
    IN  IF name \notin DOMAIN environ THEN Result("ok", <<>>, obj, log)
        ELSE assign(IF f.type.k = "bool" THEN str_to_bool(environ[name])
                    ELSE Construct(f.type, PyStr(environ[name])))

\* is_envclass of envclasses.py
legacy_is_envclass(typ) == typ.k = "envclass"

\* getattr(typ, '__origin__', None) is List. origin is what __origin__ of a
\* typing alias is: "typing", the alias itself (Python 3.6), or "builtin",
\* the class list, tuple or dict (Python 3.7 and later; python_requires is
\* >=3.6).
legacy_is_list(typ, origin) == typ.k = "List" /\ origin = "typing"

legacy_is_tuple(typ, origin) == typ.k = "Tuple" /\ origin = "typing"

is_dict_type(typ, origin) == typ.k = "Dict" /\ origin = "typing"

\* is_enum of envclasses.py: issubclass(cls, enum.Enum), no try
legacy_is_enum(typ) == IF IsClass(typ) THEN Ok(typ.k = "Enum") ELSE Raise("TypeError")

\* The body of the loop of envclass.wrap.load_env of envclasses.py for one
\* field of type int, float, str, bool or Tuple[...].
legacy_dispatch(self, f, _prefix, origin) ==
    LET prefix == legacy_prefix_of(_prefix)
    IN  CASE legacy_is_tuple(f.type, origin) /\ ~legacy_is_envclass(f.type)
                /\ ~legacy_is_list(f.type, origin) ->
                legacy_load_tuple(self, f, prefix)
          [] ~legacy_is_tuple(f.type, origin) /\ ~legacy_is_envclass(f.type)
                /\ ~legacy_is_list(f.type, origin) /\ ~is_dict_type(f.type, origin) ->
                IF legacy_is_enum(f.type).exc # "ok"
                THEN Result(legacy_is_enum(f.type).exc, <<>>, self, <<>>)
                ELSE _load_primitive(self, f, prefix)

RECURSIVE legacy_load_fields(_, _, _, _)
\* envclass.wrap.load_env(self, _prefix) of envclasses.py, from the n-th
\* field on
legacy_load_fields(self, _prefix, origin, n) ==
    LET next(r) ==
            IF r.exc # "ok" THEN r
            ELSE LogBefore(r.log, legacy_load_fields(r.obj, _prefix, origin, n + 1))
    IN  IF n > Len(Fields(ClassOf(self))) THEN Result("ok", <<>>, self, <<>>)
        ELSE next(legacy_dispatch(self, Fields(ClassOf(self))[n], _prefix, origin))

\* load_env(inst, prefix) of envclasses.py
legacy_load_env(obj, prefix, origin) == legacy_load_fields(obj, prefix, origin, 1)

LegacyClasses == {"LegacyHoge"}

LegacyInit ==
    /\ cls \in LegacyClasses
    /\ inst = NewInstance(cls)
    /\ environ = <<>>
    /\ last = NoCall

\* load_env(h, prefix) of envclasses.py, under either Python
LegacyLoadEnv(prefix, origin) ==
    LET returned(r) ==
            /\ inst' = r.obj
            /\ last' = [called |-> TRUE, prefix |-> prefix, before |-> inst,
                        exc |-> r.exc, msg |-> r.msg, log |-> r.log]
    IN  /\ returned(legacy_load_env(inst, prefix, origin))
        /\ UNCHANGED <<cls, environ>>

LegacyNext ==
    \/ \E name \in EnvNames(cls), value \in RawValues(cls) : SetEnv(name, value)
    \/ \E prefix \in Prefixes(cls), origin \in {"typing", "builtin"} : LegacyLoadEnv(prefix, origin)

LegacySpec == LegacyInit /\ [][LegacyNext]_vars

----------------------------------------------------------------------------
(* Properties *)

RECURSIVE Joined(_)
\* The segments joined by single underscores
Joined(segs) ==
    IF Len(segs) = 0 THEN <<>>
    ELSE IF Len(segs) = 1 THEN segs[1]
    ELSE segs[1] \o <<"_">> \o Joined(Tail(segs))

\* UPPER(prefix)_UPPER(p1)_..._UPPER(pn)_UPPER(f) for the path p1..pn, f; the
\* prefix is the argument or, the argument omitted, the default; an empty
\* prefix adds no segment.
NameOf(prefix, path) ==
    LET p == IF prefix = None THEN <<"e","n","v">> ELSE prefix
    IN  Joined((IF p = <<>> THEN <<>> ELSE <<Upper(p)>>)
                 \o [n \in DOMAIN path |-> Upper(path[n])])

\* A declared type without its Optional wrapper
Unwrapped(typ) == IF typ.k = "Optional" THEN typ.args[1] ELSE typ

RECURSIVE LeafPaths(_)
\* The paths to the fields of c and of its nested config objects
LeafPaths(c) ==
    UNION {IF Unwrapped(Fields(c)[n].type).k = "envclass"
           THEN {<<Fields(c)[n].name>> \o q : q \in LeafPaths(Unwrapped(Fields(c)[n].type).name)}
           ELSE {<<Fields(c)[n].name>>} : n \in DOMAIN Fields(c)}

\* The parent fields that lead from h to the object with this identity
OwnerPath(id) ==
    CASE id = 1 -> <<>>
      [] id = 2 -> <<<<"f","u","g","a">>>>
      [] id = 3 -> <<<<"f","u","g","a">>, <<"p","i","y","o">>>>

\* The lookup of log entry n found a variable.
Hit(n) == last.log[n].name \in DOMAIN environ

\* The field of log entry n did not raise: a later lookup followed, or the
\* call returned.
Passed(n) == n < Len(last.log) \/ last.exc = "ok"

FieldI == <<"i">>

\* C1: when none of the names derived for the fields of h and of its nested
\* objects is in the environment, load_env returns without raising and
\* leaves every field as it was.
C1_MissLeavesUnchanged ==
    (last.called /\ \A q \in LeafPaths(cls) : NameOf(last.prefix, q) \notin DOMAIN environ)
        => (last.exc = "ok" /\ inst = last.before)

C3_UnderscorePrefix ==
    (last.called /\ cls = "HogeI" /\ last.prefix = <<"A","B","_">>) =>
        /\ last.log[1].name = <<"A","B","_","I">>
        /\ (<<"A","B","_","I">> \in DOMAIN environ /\ environ[<<"A","B","_","I">>] = <<"4","0">>)
              => GetAttr(inst, FieldI) = PyInt(40)

\* C4: the name looked up for a field of a nested object is
\* UPPER(prefix)_UPPER(p1)_..._UPPER(pn)_UPPER(f), one underscore between
\* segments and no leading segment for the empty prefix; the value under it
\* overrides the nested field at any depth, whether or not a name for the
\* parent field is set.
C4_NestedName ==
    (last.called /\ cls = "HogeN") =>
        /\ \A n \in DOMAIN last.log :
              last.log[n].name =
                  NameOf(last.prefix, OwnerPath(last.log[n].owner) \o <<last.log[n].field>>)
        /\ last.exc = "ok" =>
              \A q \in {<<<<"f","u","g","a">>, FieldI>>,
                        <<<<"f","u","g","a">>, <<"p","i","y","o">>, FieldI>>} :
                  LET owner == IF Len(q) = 2 THEN GetAttr(inst, q[1])
                               ELSE GetAttr(GetAttr(inst, q[1]), q[2])
                      was == IF Len(q) = 2 THEN GetAttr(last.before, q[1])
                             ELSE GetAttr(GetAttr(last.before, q[1]), q[2])
                  IN  GetAttr(owner, FieldI) =
                          (IF NameOf(last.prefix, q) \in DOMAIN environ
                           THEN PyInt(ToNumber(environ[NameOf(last.prefix, q)], 10))
                           ELSE GetAttr(was, FieldI))

C4_Witness ==
    /\ last.called /\ cls = "HogeN" /\ last.prefix = <<"a">> /\ last.exc = "ok"
    /\ DOMAIN environ = {<<"A","_","F","U","G","A","_","P","I","Y","O","_","I">>,
                         <<"A","_","F","U","G","A","_","I">>}
    /\ GetAttr(GetAttr(GetAttr(last.before, <<"f","u","g","a">>), <<"p","i","y","o">>), FieldI)
          = PyInt(1000)
    /\ GetAttr(GetAttr(GetAttr(inst, <<"f","u","g","a">>), <<"p","i","y","o">>), FieldI)
          = PyInt(20)
    /\ GetAttr(GetAttr(inst, <<"f","u","g","a">>), FieldI) = PyInt(20)

ENV_B == <<"E","N","V","_","B">>

\* C5: on a bool field whose variable is present, 'true', '1', 'yes' in any
\* letter case give true, 'false', '0', 'no' in any letter case give false,
\* and any other token raises and assigns nothing.
C5_BoolTokens ==
    (last.called /\ cls = "HogeP" /\ ENV_B \in DOMAIN environ) =>
        LET token == Lower(environ[ENV_B])
        IN  CASE token \in {<<"t","r","u","e">>, <<"1">>, <<"y","e","s">>} ->
                    last.exc = "ok" /\ GetAttr(inst, <<"b">>) = PyBool(TRUE)
              [] token \in {<<"f","a","l","s","e">>, <<"0">>, <<"n","o">>} ->
                    last.exc = "ok" /\ GetAttr(inst, <<"b">>) = PyBool(FALSE)
              [] OTHER ->
                    last.exc # "ok" /\ GetAttr(inst, <<"b">>) = GetAttr(last.before, <<"b">>)

\* C6: a field declared Optional[T] is loaded as a field declared T:
\* load_env returns without raising, and a set variable gives the field the
\* value it gives a field declared T.
C6_OptionalUnwrapped ==
    (last.called /\ cls \in {"HogeOS", "HogeOL", "HogeON"}) =>
        /\ last.exc = "ok"
        /\ (cls = "HogeOS" /\ <<"A">> \in DOMAIN environ)
              => GetAttr(inst, <<"a">>) = PyStr(environ[<<"A">>])
        /\ (cls = "HogeOL" /\ <<"L","S","T">> \in DOMAIN environ)
              => GetAttr(inst, <<"l","s","t">>) = PyList(<<PyInt(1)>>)

\* The literal of log entry n, as the parser reads it
Parsed(n) == yaml_safe_load(environ[last.log[n].name])

\* The declared type of the field of log entry n (a field of h itself)
TypeAt(n) == Fields(cls)[FieldIndex(cls, last.log[n].field)].type

\* The literal of log entry n does not have the shape its field requires.
WrongShape(n) ==
    \/ Parsed(n).exc # "ok"
    \/ Parsed(n).val.t # (IF TypeAt(n).k = "Dict" THEN "dict" ELSE "list")

\* C7: a list, tuple or mapping field whose variable holds a literal of
\* another shape makes load_env raise, and the field keeps its value.
C7_WrongShapeRaises ==
    (last.called /\ cls \in {"HogeL", "HogeT", "HogeD"}) =>
        \A n \in DOMAIN last.log :
            (Hit(n) /\ WrongShape(n)) =>
                /\ ~Passed(n)
                /\ GetAttr(inst, last.log[n].field) = GetAttr(last.before, last.log[n].field)

\* The elements of the literal of log entry n, each converted by the type
\* declared at its place
Converted(n) ==
    [m \in DOMAIN Parsed(n).val.v |-> Construct(TypeAt(n).args[m], Parsed(n).val.v[m])]

\* C8: on a tuple field of n declared types, a sequence of m # n elements
\* raises InvalidNumberOfElement with expected=n, actual=m and the field
\* keeps its value; a sequence of n elements gives the tuple of its elements,
\* the i-th converted by the i-th declared type.
C8_TupleArity ==
    (last.called /\ cls = "HogeT") =>
        \A n \in DOMAIN last.log :
            (Hit(n) /\ ~WrongShape(n)) =>
                IF Len(Parsed(n).val.v) # Len(TypeAt(n).args)
                THEN /\ n = Len(last.log)
                     /\ last.exc = "InvalidNumberOfElement"
                     /\ last.msg = <<Len(TypeAt(n).args), Len(Parsed(n).val.v)>>
                     /\ GetAttr(inst, last.log[n].field)
                           = GetAttr(last.before, last.log[n].field)
                ELSE IF FirstExc(Converted(n)) = "ok"
                THEN /\ Passed(n)
                     /\ GetAttr(inst, last.log[n].field)
                           = PyTuple([m \in DOMAIN Converted(n) |-> Converted(n)[m].val])
                ELSE /\ n = Len(last.log)
                     /\ last.exc = FirstExc(Converted(n))
                     /\ GetAttr(inst, last.log[n].field)
                           = GetAttr(last.before, last.log[n].field)

TUPLE_TWO == <<"t","u","p","l","e","_","t","w","o">>

\* The test's case: (1, 2.0) loaded from '[1, 2]' outlives the failing '[1]'.
C8_Witness ==
    /\ last.called /\ cls = "HogeT"
    /\ last.exc = "InvalidNumberOfElement" /\ last.msg = <<2, 1>>
    /\ GetAttr(last.before, TUPLE_TWO) = PyTuple(<<PyInt(1), PyFloat(2, <<>>)>>)
    /\ GetAttr(inst, TUPLE_TWO) = PyTuple(<<PyInt(1), PyFloat(2, <<>>)>>)

\* The payloads of enumeration e that the raw string denotes
Denoted(e, raw) ==
    {m \in DOMAIN EnumMembers(e) :
        LET payload == EnumMembers(e)[m]
            conv == Construct(IF payload.t = "int" THEN TInt ELSE TStr, PyStr(raw))
        IN  conv.exc = "ok" /\ conv.val = payload}

\* C9: an enumeration field whose variable is present takes the member whose
\* payload is the raw string converted to the payload type, annotated or
\* not; a string that matches no member leaves the field and raises nothing.
C9_EnumMember ==
    (last.called /\ cls = "HogeE") =>
        /\ last.exc = "ok"
        /\ \A n \in DOMAIN Fields(cls) :
              LET f == Fields(cls)[n]
                  name == NameOf(last.prefix, <<f.name>>)
                  hits == IF name \in DOMAIN environ
                          THEN Denoted(f.type.name, environ[name]) ELSE {}
              IN  GetAttr(inst, f.name) =
                      (IF hits # {}
                       THEN PyEnum(f.type.name, EnumMembers(f.type.name)[CHOOSE m \in hits : TRUE].v)
                       ELSE GetAttr(last.before, f.name))

\* The items of the literal of log entry n whose scalars all convert
ScalarsConvert(n) ==
    \A m \in DOMAIN Parsed(n).val.v :
        LET item == Parsed(n).val.v[m]
        IN  /\ Construct(TypeAt(n).args[1], item[1]).exc = "ok"
            /\ item[2].t \in {"list", "dict"} \/ Construct(TypeAt(n).args[2], item[2]).exc = "ok"

\* C10: on a Dict[K, V] field a brace-delimited literal gives the mapping of
\* its entries with every scalar key converted by K and every scalar value
\* by V, list and mapping values stored as parsed, and of several entries
\* with the same converted key the last one's value; '{hoge: 2}' on
\* Dict[str, float] gives {'hoge': 2.0}.
C10_DictConversion ==
    (last.called /\ cls = "HogeD") =>
        \A n \in DOMAIN last.log :
            (Hit(n) /\ ~WrongShape(n) /\ ScalarsConvert(n)) =>
                LET items == Parsed(n).val.v
                    K == TypeAt(n).args[1]
                    V == TypeAt(n).args[2]
                    got == GetAttr(inst, last.log[n].field)
                    key(m) == Construct(K, items[m][1]).val
                    value(m) == IF items[m][2].t \in {"list", "dict"} THEN items[m][2]
                                ELSE Construct(V, items[m][2]).val
                    lastOf(m) == CHOOSE j \in DOMAIN items :
                                    /\ PyEq(key(j), key(m))
                                    /\ \A i \in DOMAIN items : PyEq(key(i), key(m)) => i <= j
                IN  /\ Passed(n)
                    /\ got.t = "dict"
                    /\ \A m \in DOMAIN items :
                          \E j \in DOMAIN got.v :
                              got.v[j] = <<key(m), value(lastOf(m))>>
                    /\ \A j \in DOMAIN got.v :
                          /\ \E m \in DOMAIN items : got.v[j][1] = key(m)
                          /\ \A i \in DOMAIN got.v : PyEq(got.v[i][1], got.v[j][1]) => i = j
                    /\ environ[last.log[n].name] = <<"{","h","o","g","e",":"," ","2","}">>
                          => got = (IF K.k = "str"
                                    THEN PyDict(<< <<PyStr(<<"h","o","g","e">>), PyFloat(2, <<>>)>> >>)
                                    ELSE got)

DCT_INT == <<"d","c","t","_","i","n","t">>

DCT_STR_FLOAT == <<"d","c","t","_","s","t","r","_","f","l","o","a","t">>

\* Two entries with one converted key, and a list value stored as parsed
C10_Witness ==
    /\ last.called /\ cls = "HogeD" /\ last.exc = "ok"
    /\ DOMAIN environ = {Upper(<<"e","n","v","_">> \o DCT_INT),
                         Upper(<<"e","n","v","_">> \o DCT_STR_FLOAT)}
    /\ environ[Upper(<<"e","n","v","_">> \o DCT_INT)]
          = <<"{","1",":"," ","2",","," ","1",".","5",":"," ","3","}">>
    /\ GetAttr(inst, DCT_INT) = PyDict(<< <<PyInt(1), PyInt(3)>> >>)
    /\ GetAttr(inst, DCT_STR_FLOAT)
          = PyDict(<< <<PyStr(<<"h","o","g","e">>), PyList(<<PyInt(1), PyInt(2)>>)>> >>)

\* The literal of log entry n is bracket-delimited and parses to a sequence.
Bracketed(n) ==
    LET s == Strip(environ[last.log[n].name])
    IN  /\ Len(s) >= 2 /\ s[1] = "[" /\ s[Len(s)] = "]"
        /\ Parsed(n).exc = "ok" /\ Parsed(n).val.t = "list"

\* The value of log entry n is present and has no elements: an empty
\* literal, or nothing but blanks.
NoElements(n) ==
    \/ Strip(environ[last.log[n].name]) = <<>>
    \/ Parsed(n).exc = "ok" /\ Parsed(n).val.t \in {"list", "dict"} /\ Len(Parsed(n).val.v) = 0

\* The elements of the literal of log entry n, each converted by the element
\* type of its field
ElementsConverted(n) ==
    [m \in DOMAIN Parsed(n).val.v |-> Construct(TypeAt(n).args[1], Parsed(n).val.v[m])]

\* C11: on a List[T] field a bracket-delimited literal gives the sequence of
\* its elements, each converted by T, in the literal's order and of the
\* literal's length; an empty list literal, and any present value with no
\* elements, gives the empty sequence and no error.
C11_ListConversion ==
    (last.called /\ cls = "HogeL") =>
        \A n \in DOMAIN last.log :
            Hit(n) =>
                /\ (Bracketed(n) /\ FirstExc(ElementsConverted(n)) = "ok") =>
                      /\ Passed(n)
                      /\ GetAttr(inst, last.log[n].field)
                            = PyList([m \in DOMAIN ElementsConverted(n) |->
                                        ElementsConverted(n)[m].val])
                /\ NoElements(n) =>
                      /\ Passed(n)
                      /\ GetAttr(inst, last.log[n].field) = PyList(<<>>)

\* The object with this identity, reached from the top-level object root
ObjAt(root, id) ==
    CASE id = 1 -> root
      [] id = 2 -> GetAttr(root, <<"f","u","g","a">>)
      [] id = 3 -> GetAttr(GetAttr(root, <<"f","u","g","a">>), <<"p","i","y","o">>)

\* The field of log entry n, in the object reached from root
ValueAt(root, n) == GetAttr(ObjAt(root, last.log[n].owner), last.log[n].field)

\* The declared type of the field of log entry n, nested or not
DeclaredAt(n) ==
    LET c == ClassOf(ObjAt(last.before, last.log[n].owner))
    IN  Fields(c)[FieldIndex(c, last.log[n].field)].type

\* The index of the field of h under which log entry n was looked up
TopIndex(n) ==
    IF last.log[n].owner = 1 THEN FieldIndex(cls, last.log[n].field)
    ELSE FieldIndex(cls, OwnerPath(last.log[n].owner)[1])

\* The index k of the field of h at which the call raised: the field of the
\* last lookup when that found a value and assigned nothing, else the field
\* after it (the failure came before any lookup).
FailedAt ==
    LET m == Len(last.log)
    IN  IF m = 0 THEN 1
        ELSE IF Hit(m) /\ ~last.log[m].set THEN TopIndex(m)
        ELSE TopIndex(m) + 1

\* The mapping got holds the entries of the literal of log entry n.
DictHolds(n, got) ==
    LET items == Parsed(n).val.v
        key(m) == Construct(TypeAt(n).args[1], items[m][1]).val
    IN  /\ got.t = "dict"
        /\ \A m \in DOMAIN items : \E j \in DOMAIN got.v : got.v[j][1] = key(m)
        /\ \A j \in DOMAIN got.v : \E m \in DOMAIN items : got.v[j][1] = key(m)

\* The field of log entry n holds the value its variable gives it.
HoldsOverlay(n) ==
    LET raw == environ[last.log[n].name]
        got == ValueAt(inst, n)
        k == DeclaredAt(n).k
    IN  CASE k = "int" -> got = PyInt(ToNumber(raw, 10))
          [] k = "str" -> got = PyStr(raw)
          [] k = "List" -> got = PyList([m \in DOMAIN ElementsConverted(n) |->
                                          ElementsConverted(n)[m].val])
          [] k = "Tuple" -> got = PyTuple([m \in DOMAIN Converted(n) |-> Converted(n)[m].val])
          [] k = "Dict" -> DictHolds(n, got)
          [] OTHER -> TRUE

\* C12: a failure at field k, raised in a nested object's load too, comes
\* out of the top-level call; the fields before k whose variable is set hold
\* the overlaid value, the fields after k their value from before the call.
\* A variable missing for a nested field raises nothing and the fields of
\* the parent after it are processed.
C12_Propagation ==
    last.called =>
        /\ last.exc # "ok" =>
              /\ FailedAt \in DOMAIN Fields(cls)
              /\ \A j \in DOMAIN Fields(cls) :
                    j > FailedAt =>
                        /\ GetAttr(inst, Fields(cls)[j].name)
                              = GetAttr(last.before, Fields(cls)[j].name)
                        /\ \A n \in DOMAIN last.log : TopIndex(n) # j
              /\ \A j \in DOMAIN Fields(cls) :
                    (j < FailedAt /\ Fields(cls)[j].type.k # "envclass") =>
                        \E n \in DOMAIN last.log :
                            last.log[n].owner = 1 /\ last.log[n].field = Fields(cls)[j].name
              /\ \A n \in DOMAIN last.log :
                    (Hit(n) /\ (TopIndex(n) < FailedAt \/ n < Len(last.log))) =>
                        last.log[n].set /\ HoldsOverlay(n)
        /\ \A n \in DOMAIN last.log :
              (last.log[n].owner # 1 /\ Hit(n) /\ ~last.log[n].set) =>
                  n = Len(last.log) /\ last.exc # "ok"
        /\ \A n \in DOMAIN last.log :
              ~Hit(n) => ValueAt(inst, n) = ValueAt(last.before, n)
        /\ (last.exc # "ok" /\ \A j \in DOMAIN Fields(cls) : Fields(cls)[j].type.k # "Optional") =>
              /\ last.log # <<>>
              /\ Hit(Len(last.log)) /\ ~last.log[Len(last.log)].set
        /\ (cls = "HogeN" /\ last.exc = "ok") =>
              /\ \A q \in LeafPaths(cls) :
                    \E n \in DOMAIN last.log :
                        last.log[n].name = NameOf(last.prefix, q)
              /\ NameOf(last.prefix, <<<<"s">>>>) \in DOMAIN environ =>
                    GetAttr(inst, <<"s">>) = PyStr(environ[NameOf(last.prefix, <<<<"s">>>>)])

\* ENV_FUGA_I is set and ENV_FUGA_PIYO_I does not convert: the nested
\* failure comes out of load_env(h), fuga.i holds the overlaid value and s,
\* declared after fuga, is not looked up.
C12_Witness ==
    /\ last.called /\ cls = "HogeN" /\ last.prefix = None
    /\ last.exc = "ValueError" /\ FailedAt = 2
    /\ GetAttr(GetAttr(last.before, <<"f","u","g","a">>), FieldI) = PyInt(100)
    /\ GetAttr(GetAttr(inst, <<"f","u","g","a">>), FieldI) = PyInt(20)
    /\ GetAttr(GetAttr(GetAttr(inst, <<"f","u","g","a">>), <<"p","i","y","o">>), FieldI)
          = PyInt(1000)
    /\ Len(last.log) = 3

RECURSIVE Identities(_)
\* Which object this is and which objects its config attributes are, the
\* other attributes left out
Identities(obj) ==
    <<obj.v[1], obj.v[2],
      [n \in DOMAIN obj.v[3] |->
          IF obj.v[3][n].t = "obj" THEN Identities(obj.v[3][n]) ELSE <<>>]>>

C14_RawString ==
    last.called =>
        \A n \in DOMAIN last.log :
            (DeclaredAt(n).k = "str" /\ Hit(n)) =>
                /\ last.log[n].set
                /\ Passed(n)
                /\ ValueAt(inst, n) = PyStr(environ[last.log[n].name])
                /\ Len(ValueAt(inst, n).v) = Len(environ[last.log[n].name])

\* The case of test_str: a timestamp and a text of two lines
C14_Witness ==
    /\ last.called /\ cls = "HogeS" /\ last.exc = "ok"
    /\ DOMAIN environ = {<<"D","A","T","E">>, <<"T","E","X","T">>}
    /\ GetAttr(last.before, <<"d","a","t","e">>) = PyStr(<<"2","0","2","1">>)
    /\ GetAttr(inst, <<"d","a","t","e">>) = PyStr(<<"2","0","2","2","-","0","1","-","0","1","T","2","2",":","0","0",":","0","0","Z">>)
    /\ GetAttr(inst, <<"t","e","x","t">>) = PyStr(<<"c","\n","d">>)

\* The name envclasses.py derives for a field of h
LegacyNameOf(field) ==
    Upper(IF last.prefix \in {None, <<>>} THEN <<"e","n","v">> ELSE last.prefix)
        \o <<"_">> \o Upper(field)

\* The variables of the fields i and b, where set, hold an int and a
\* boolean token.
LegacyOthersValid ==
    /\ LegacyNameOf(<<"i">>) \in DOMAIN environ => IsDigits(environ[LegacyNameOf(<<"i">>)])
    /\ LegacyNameOf(<<"b">>) \in DOMAIN environ =>
          Lower(environ[LegacyNameOf(<<"b">>)]) \in {<<"y","e","s">>}

\* C15: in envclasses.py a tuple field whose variable is absent is a lookup
\* miss: load_env does not raise, the field keeps its value and the fields
\* declared after it are processed.
C15_LegacyTupleMiss ==
    (/\ last.called /\ cls = "LegacyHoge"
     /\ LegacyNameOf(<<"t","p","l">>) \notin DOMAIN environ
     /\ LegacyOthersValid) =>
        /\ last.exc = "ok"
        /\ GetAttr(inst, <<"t","p","l">>) = GetAttr(last.before, <<"t","p","l">>)
        /\ \E n \in DOMAIN last.log : last.log[n].field = <<"b">>
        /\ LegacyNameOf(<<"b">>) \in DOMAIN environ => GetAttr(inst, <<"b">>) = PyBool(TRUE)

====
